---- MODULE Spec2Model ----
(***************************************************************************)
(* Model of src/protectedclass.py: the naming utilities, the               *)
(* ProtectedClass attribute container and the MyDataClass sample type.     *)
(*                                                                         *)
(* A name is a sequence of one-character strings, so that startswith,      *)
(* lstrip, rstrip, removeprefix and len are computed as Python computes    *)
(* them.  The instance __dict__ is an insertion-ordered sequence of        *)
(* [k, v] entries (a Python dict keeps insertion order, and the            *)
(* no-argument protect()/unprotect() iterate the keys in that order).      *)
(***************************************************************************)
EXTENDS Integers, Sequences, FiniteSets, TLC

VARIABLES
    d,       \* self.__dict__ of the one MyDataClass instance
    prev,    \* self.__dict__ as it was before the last call
    op,      \* the last call: [f |-> function, args |-> its arguments]
    ret,     \* what the last call returned
    err,     \* the exception that reached the caller of the last call
    log,     \* the kinds of message the last call printed
    pc,      \* position in the __main__ sample run
    rt,      \* protect(n) ; unprotect(n) pair in progress
    nops     \* number of calls made since construction

vars == <<d, prev, op, ret, err, log, pc, rt, nops>>

(***************************************************************************)
(* Bounds of the model.                                                    *)
(***************************************************************************)
MaxLead == 2     \* leading underscores of a name passed to a call
MaxTrail == 2    \* trailing underscores of a name passed to a call
MaxPad == 1      \* underscores on either side of a forbidden name passed to a call
MaxOps == 3      \* calls made after construction
MaxArgs == 2     \* positional values handed to the constructor

(***************************************************************************)
(* Strings.                                                                *)
(***************************************************************************)
Str(n, c) == [i \in 1..n |-> c]

type == <<"t","y","p","e">>
count == <<"c","o","u","n","t">>
hello == <<"h","e","l","l","o">>
backup_set == <<"b","a","c","k","u","p","_","s","e","t">>
backup_date == <<"b","a","c","k","u","p","_","d","a","t","e">>
secret == <<"s","e","c","r","e","t">>

\* Python's None, and the values of the sample run; values are strings.
None == "<None>"
NoError == "<no error>"

startswith(string, prefix) ==
    /\ Len(string) >= Len(prefix)
    /\ SubSeq(string, 1, Len(prefix)) = prefix

endswith(string, suffix) ==
    /\ Len(string) >= Len(suffix)
    /\ SubSeq(string, Len(string) - Len(suffix) + 1, Len(string)) = suffix

removeprefix(string, prefix) ==
    IF startswith(string, prefix)
    THEN SubSeq(string, Len(prefix) + 1, Len(string))
    ELSE string

RECURSIVE lstrip(_)
lstrip(string) ==
    IF string # <<>> /\ Head(string) = "_" THEN lstrip(Tail(string)) ELSE string

RECURSIVE rstrip(_)
rstrip(string) ==
    IF string # <<>> /\ string[Len(string)] = "_"
    THEN rstrip(SubSeq(string, 1, Len(string) - 1))
    ELSE string

\* attr.lstrip('_').rstrip('_')
stripped(attr) == rstrip(lstrip(attr))

(***************************************************************************)
(* Naming utilities.                                                       *)
(***************************************************************************)
is_dunder_prefix(string) == startswith(string, <<"_","_">>)

is_dunder_suffix(string) == endswith(string, <<"_","_">>)

is_dunder_attrib(string) == is_dunder_prefix(string) /\ is_dunder_suffix(string)

\* The exception a naming utility raises instead of returning a name.  It is
\* no name: its one element is longer than a character.
DunderAttributeError == <<"DunderAttributeError">>

make_protected_name_prefix_single(name, ignore) ==
    IF ignore /\ Len(name) > 2 /\ startswith(name, <<"_">>)
    THEN DunderAttributeError
    ELSE <<"_">> \o name

make_protected_name_prefix(name, ignore) ==
    IF ignore /\ Len(name) > 2 /\ startswith(name, <<"_","_">>)
    THEN DunderAttributeError
    ELSE <<"_">> \o name

\* The default of the parameter `ignore`: protect and unprotect call
\* make_protected_name_prefix(name) without it.
ignore_guarded == TRUE

ignore_default == FALSE

undo_protected_name_prefix(name) ==
    IF startswith(name, <<"_">>) THEN removeprefix(name, <<"_">>) ELSE name

is_protected_name_prefix(name) == startswith(name, <<"_">>)

(***************************************************************************)
(* The dict primitives used on self.__dict__.                              *)
(***************************************************************************)
keys(dict) == {dict[i].k : i \in 1..Len(dict)}

getitem(dict, key) == dict[CHOOSE i \in 1..Len(dict) : dict[i].k = key].v

setitem(dict, key, value) ==
    IF key \in keys(dict)
    THEN [i \in 1..Len(dict) |->
            IF dict[i].k = key THEN [k |-> key, v |-> value] ELSE dict[i]]
    ELSE Append(dict, [k |-> key, v |-> value])

delitem(dict, key) ==
    LET keep(e) == e.k # key IN SelectSeq(dict, keep)

\* dict equality: the same keys with the same values, in any order
items(dict) == {<<dict[i].k, dict[i].v>> : i \in 1..Len(dict)}

(***************************************************************************)
(* class MyDataClass(ProtectedClass): what dir(type(self)) lists, and      *)
(* whether getattr(type(self), name) is callable.  The annotations         *)
(* `count: int` ... `type: str` create no class attribute; the three       *)
(* @property accessors do.  ABC adds `_abc_impl`.                          *)
(***************************************************************************)
_abc_impl == <<"_","a","b","c","_","i","m","p","l">>
__doc__ == <<"_","_","d","o","c","_","_">>
__init__name == <<"_","_","i","n","i","t","_","_">>
protect_name == <<"p","r","o","t","e","c","t">>
unprotect_name == <<"u","n","p","r","o","t","e","c","t">>

ClassDir ==
    { [name |-> count,          callable |-> FALSE],
      [name |-> backup_set,     callable |-> FALSE],
      [name |-> backup_date,    callable |-> FALSE],
      [name |-> _abc_impl,      callable |-> FALSE],
      [name |-> __doc__,        callable |-> FALSE],
      [name |-> __init__name,   callable |-> TRUE],
      [name |-> protect_name,   callable |-> TRUE],
      [name |-> unprotect_name, callable |-> TRUE] }

(***************************************************************************)
(* class ProtectedClass.  Every method takes self.__dict__ as `dict` and   *)
(* returns the new self.__dict__ as field d of its result.                 *)
(***************************************************************************)
__setattr__protected(dict, attr, value) ==
    setitem(dict, IF startswith(attr, <<"_">>) THEN attr ELSE <<"_">> \o attr, value)

__setattr__(dict, attr, value) == setitem(dict, attr, value)

\* f'{attr}' of a constructor argument: a text [str |-> name] is itself, an
\* integer [int |-> n], n >= 0, is its decimal digits
RECURSIVE digits(_)
digits(n) ==
    LET digit == <<"0","1","2","3","4","5","6","7","8","9">> IN
    IF n < 10 THEN <<digit[n + 1]>> ELSE digits(n \div 10) \o <<digit[(n % 10) + 1]>>

fstring(attr) == IF "int" \in DOMAIN attr THEN digits(attr.int) ELSE attr.str

_initprotect_raw(dict, attr, value) == __setattr__(dict, fstring(attr), value)

_initprotect_once(dict, attr, value) ==
    IF startswith(fstring(attr), <<"_">>)
    THEN __setattr__(dict, fstring(attr), value)
    ELSE __setattr__(dict, <<"_">> \o fstring(attr), value)

_initprotect(dict, attr, value) ==
    __setattr__(dict, <<"_">> \o fstring(attr), value)

_hasattr(dict, attr) == attr \in keys(dict)

_getforbiddenlist(dict) ==
    LET clss == {a.name : a \in ClassDir}
        inst == keys(dict) \cup clss
        common == inst \cap clss
        callable(name) == \E a \in ClassDir : a.name = name /\ a.callable
    IN  {name \in common : ~callable(name) /\ ~is_dunder_attrib(name)}

_isforbidden_exact(dict, attr) == attr \in _getforbiddenlist(dict)

_isforbidden(dict, attr) == stripped(attr) \in _getforbiddenlist(dict)

RECURSIVE __delattr__abort(_, _)
__delattr__abort(dict, attr) ==
    IF attr = <<>> THEN [d |-> dict, log |-> {}]
    ELSE LET key == Head(attr)
         IN  IF _isforbidden(dict, key)
             THEN LET rest == __delattr__abort(dict, Tail(attr))
                  IN  [d |-> rest.d,
                       log |-> {"WARNING: Unable to delete key"} \cup rest.log]
             ELSE IF key \in keys(dict)
                  THEN __delattr__abort(delitem(dict, key), Tail(attr))
                  ELSE [d |-> dict,
                        log |-> {"Something went wrong with __delattr__"}]

RECURSIVE __delattr__unchecked(_, _)
__delattr__unchecked(dict, attr) ==
    IF attr = <<>> THEN [d |-> dict, log |-> {}]
    ELSE LET key == Head(attr)
             step == IF key \in keys(dict)
                     THEN [d |-> delitem(dict, key), log |-> {}]
                     ELSE [d |-> dict,
                           log |-> {"Something went wrong with __delattr__"}]
             rest == __delattr__unchecked(step.d, Tail(attr))
         IN  [d |-> rest.d, log |-> step.log \cup rest.log]

\* One pass of the loop of __delattr__ per name; log collects what is printed.
RECURSIVE __delattr__(_, _)
__delattr__(dict, attr) ==
    IF attr = <<>> THEN [d |-> dict, log |-> {}]
    ELSE LET key == Head(attr)
             step == IF _isforbidden(dict, key)
                     THEN [d |-> dict, log |-> {"WARNING: Unable to delete key"}]
                     ELSE IF key \in keys(dict)
                          THEN [d |-> delitem(dict, key), log |-> {}]
                          ELSE [d |-> dict,    \* KeyError, caught
                                log |-> {"Something went wrong with __delattr__"}]
             rest == __delattr__(step.d, Tail(attr))
         IN  [d |-> rest.d, log |-> step.log \cup rest.log]

__getattr__protectedfirst(dict, attr) ==
    IF (<<"_">> \o attr) \in keys(dict)
    THEN [d |-> dict, ret |-> getitem(dict, <<"_">> \o attr)]
    ELSE IF attr \in keys(dict)
         THEN [d |-> dict, ret |-> getitem(dict, attr)]
         ELSE [d |-> __setattr__(dict, attr, None), ret |-> None]

__getattr__protected(dict, attr) ==
    IF attr \in keys(dict)
    THEN [d |-> dict, ret |-> getitem(dict, attr)]
    ELSE IF (<<"_">> \o attr) \in keys(dict)
         THEN [d |-> dict, ret |-> getitem(dict, <<"_">> \o attr)]
         ELSE [d |-> __setattr__(dict, <<"_">> \o attr, None), ret |-> None]

__getattr__(dict, attr) ==
    IF attr \in keys(dict)
    THEN [d |-> dict, ret |-> getitem(dict, attr)]
    ELSE IF (<<"_">> \o attr) \in keys(dict)
         THEN [d |-> dict, ret |-> getitem(dict, <<"_">> \o attr)]
         ELSE [d |-> __setattr__(dict, attr, None), ret |-> None]  \* KeyError

_hasprotectedattr_anykey(dict, attr) ==
    IF _hasattr(dict, attr)
    THEN TRUE
    ELSE \/ _hasattr(dict, <<"_">> \o stripped(attr))
         \/ _hasattr(dict, <<"_","_">> \o stripped(attr))

_hasprotectedattr(dict, attr) ==
    IF startswith(attr, <<"_">>) /\ _hasattr(dict, attr)
    THEN TRUE
    ELSE \/ _hasattr(dict, <<"_">> \o stripped(attr))
         \/ _hasattr(dict, <<"_","_">> \o stripped(attr))

_hasunprotectedattr(dict, attr) == _hasattr(dict, stripped(attr))

_updateattr_copy(dict, oldname, newname) ==
    LET got == __getattr__(dict, oldname)
    IN  [d |-> __setattr__(got.d, newname, got.ret), log |-> {}]

\* __getattr__ handles its KeyError, __setattr__ on a text key cannot fail
\* and __delattr__ catches every Exception, so the except clause of
\* _updateattr (print and re-raise) is never entered for text names.
_updateattr(dict, oldname, newname) ==
    LET got == __getattr__(dict, oldname)
        set == __setattr__(got.d, newname, got.ret)
    IN  __delattr__(set, <<oldname>>)

protect_arg_noprefix(dict, arg) ==
    IF ~_isforbidden(dict, arg) /\ _hasunprotectedattr(dict, arg)
    THEN LET old == undo_protected_name_prefix(arg)
         IN  _updateattr(dict, old, old)
    ELSE [d |-> dict, log |-> {}]

\* The body of protect's loop for one arg.
protect_arg(dict, arg) ==
    IF ~_isforbidden(dict, arg) /\ _hasunprotectedattr(dict, arg)
    THEN LET old == undo_protected_name_prefix(arg)
             new == make_protected_name_prefix(old, ignore_default)
         IN  IF new = DunderAttributeError
             THEN [d |-> dict, log |-> {"Something went wrong", "DunderAttributeError"}]
             ELSE _updateattr(dict, old, new)
    ELSE [d |-> dict, log |-> {}]

unprotect_arg_unchecked(dict, arg) ==
    IF ~_isforbidden(dict, arg)
    THEN LET old == make_protected_name_prefix(arg, ignore_default)
         IN  IF old = DunderAttributeError
             THEN [d |-> dict, log |-> {"Something went wrong", "DunderAttributeError"}]
             ELSE _updateattr(dict, old, undo_protected_name_prefix(old))
    ELSE [d |-> dict, log |-> {}]

\* The body of unprotect's loop for one arg.
unprotect_arg(dict, arg) ==
    IF ~_isforbidden(dict, arg) /\ _hasprotectedattr(dict, arg)
    THEN LET old == make_protected_name_prefix(arg, ignore_default)
         IN  IF old = DunderAttributeError
             THEN [d |-> dict, log |-> {"Something went wrong", "DunderAttributeError"}]
             ELSE _updateattr(dict, old, undo_protected_name_prefix(old))
    ELSE [d |-> dict, log |-> {}]

\* keys = self.__dict__.copy().keys(): the keys at the time of the call
keys_snapshot(dict) == [i \in 1..Len(dict) |-> dict[i].k]

RECURSIVE protect_loop(_, _)
protect_loop(dict, attr) ==
    IF attr = <<>> THEN [d |-> dict, log |-> {}]
    ELSE LET step == protect_arg(dict, Head(attr))
             rest == protect_loop(step.d, Tail(attr))
         IN  [d |-> rest.d, log |-> step.log \cup rest.log]

protect_allkeys(dict, attr) == protect_loop(dict, keys_snapshot(dict))

protect(dict, attr) ==
    protect_loop(dict, IF attr # <<>> THEN attr ELSE keys_snapshot(dict))

RECURSIVE unprotect_loop_abort(_, _)
unprotect_loop_abort(dict, attr) ==
    IF attr = <<>> THEN [d |-> dict, log |-> {}]
    ELSE LET step == unprotect_arg(dict, Head(attr))
             rest == IF step.log = {}
                     THEN unprotect_loop_abort(step.d, Tail(attr))
                     ELSE [d |-> step.d, log |-> {}]
         IN  [d |-> rest.d, log |-> step.log \cup rest.log]

RECURSIVE unprotect_loop(_, _)
unprotect_loop(dict, attr) ==
    IF attr = <<>> THEN [d |-> dict, log |-> {}]
    ELSE LET step == unprotect_arg(dict, Head(attr))
             rest == unprotect_loop(step.d, Tail(attr))
         IN  [d |-> rest.d, log |-> step.log \cup rest.log]

unprotect(dict, attr) ==
    unprotect_loop(dict, IF attr # <<>> THEN attr ELSE keys_snapshot(dict))

\* ProtectedClass.__init__(*args, **kwargs); args is a sequence of [str |-> name]
\* or [int |-> n], kwargs is a sequence of [k, v] with distinct text keys k
RECURSIVE __init__(_, _, _)
__init__(dict, args, kwargs) ==
    IF args # <<>>
    THEN __init__(_initprotect(dict, Head(args), None), Tail(args), kwargs)
    ELSE IF kwargs # <<>>
         THEN __init__(_initprotect(dict, [str |-> Head(kwargs).k], Head(kwargs).v),
                       args, Tail(kwargs))
         ELSE dict

\* MyDataClass.__init__: super().__init__('hello', *args, **kwargs)
MyDataClass(args, kwargs) == __init__(<<>>, <<[str |-> hello]>> \o args, kwargs)

\* the `data` of the sample run
data ==
    << [k |-> count,       v |-> "162"],
       [k |-> backup_set,  v |-> "76144912-5d67-4a6a-9f7d-3631bc901ad8"],
       [k |-> backup_date, v |-> "1651039155045"],
       [k |-> type,        v |-> "full"] >>

(***************************************************************************)
(* The inputs of the calls.                                                *)
(***************************************************************************)
\* every underscore spelling of a stem, within the bounds
Spellings(stem, lead, trail) ==
    {Str(i, "_") \o stem \o Str(j, "_") : i \in 0..lead, j \in 0..trail}

\* `type` is a plain attribute, `count` is shadowed by a @property
Names ==
    Spellings(type, MaxLead, MaxTrail) \cup Spellings(count, MaxPad, MaxPad)

\* the names handed to the naming utilities
UtilityNames ==
    Spellings(type, MaxLead, MaxTrail)
        \cup Spellings(count, MaxLead, MaxTrail)
        \cup Spellings(secret, MaxLead, MaxTrail)

Values == {"new"}

\* protect(*attr) / unprotect(*attr): no names, or one name
ArgLists == {<<>>} \cup {<<n>> : n \in Names}

(***************************************************************************)
(* The state machine: one MyDataClass instance and its caller.             *)
(***************************************************************************)
NoPair == [phase |-> 0, n |-> <<>>, d0 |-> <<>>]

Init ==
    /\ d = MyDataClass(<<>>, data)
    /\ prev = <<>>
    /\ op = [f |-> "MyDataClass", args |-> <<>>]
    /\ ret = None
    /\ err = NoError
    /\ log = {}
    /\ pc = "constructed"
    /\ rt = NoPair
    /\ nops = 0

\* The sample run: unprotect('type') at line 231, protect('type') at line 233
main(f, args) ==
    IF pc = "constructed" /\ f = "unprotect" /\ args = <<type>>
    THEN "unprotected"
    ELSE IF pc = "unprotected" /\ f = "protect" /\ args = <<type>>
         THEN "protected"
         ELSE "other"

\* protect(n) directly followed by unprotect(n); d0 is the dict before the pair
pair(f, args) ==
    IF f = "protect" /\ Len(args) = 1
    THEN [phase |-> 1, n |-> args[1], d0 |-> d]
    ELSE IF f = "unprotect" /\ rt.phase = 1 /\ args = <<rt.n>>
         THEN [phase |-> 2, n |-> rt.n, d0 |-> rt.d0]
         ELSE NoPair

\* What every call leaves in the history variables.
Called(f, args) ==
    /\ nops < MaxOps
    /\ nops' = nops + 1
    /\ prev' = d
    /\ op' = [f |-> f, args |-> args]
    /\ pc' = main(f, args)
    /\ rt' = pair(f, args)

\* obj.name = value
SetCall(name, value) ==
    /\ Called("__setattr__", <<name, <<value>> >>)
    /\ d' = __setattr__(d, name, value)
    /\ ret' = None
    /\ err' = NoError
    /\ log' = {}

\* obj.name, when the normal lookup of name fails
GetCall(name) ==
    LET r == __getattr__(d, name) IN
    /\ Called("__getattr__", <<name>>)
    /\ d' = r.d
    /\ ret' = r.ret
    /\ err' = NoError
    /\ log' = {}

\* del obj.name
DeleteCall(name) ==
    LET r == __delattr__(d, <<name>>) IN
    /\ Called("__delattr__", <<name>>)
    /\ d' = r.d
    /\ ret' = None
    /\ err' = NoError
    /\ log' = r.log

\* obj.__delattr__(*attr) with the names attr
DeleteNamesCall(attr) ==
    LET r == __delattr__(d, attr) IN
    /\ Called("__delattr__", attr)
    /\ d' = r.d
    /\ ret' = None
    /\ err' = NoError
    /\ log' = r.log

\* obj.protect(*attr): nothing in protect raises past its except clause
ProtectCall(attr) ==
    LET r == protect(d, attr) IN
    /\ Called("protect", attr)
    /\ d' = r.d
    /\ ret' = None
    /\ err' = NoError
    /\ log' = r.log

\* obj.unprotect(*attr)
UnprotectCall(attr) ==
    LET r == unprotect(d, attr) IN
    /\ Called("unprotect", attr)
    /\ d' = r.d
    /\ ret' = None
    /\ err' = NoError
    /\ log' = r.log

Set == \E name \in Names, value \in Values : SetCall(name, value)

Get == \E name \in Names : GetCall(name)

Delete == \E name \in Names : DeleteCall(name)

Protect == \E attr \in ArgLists : ProtectCall(attr)

Unprotect == \E attr \in ArgLists : UnprotectCall(attr)

Next ==
    \/ Set
    \/ Get
    \/ Delete
    \/ Protect
    \/ Unprotect

Spec == Init /\ [][Next]_vars

(***************************************************************************)
(* A caller that passes one or two names per call.                         *)
(***************************************************************************)
BatchNames == {type, <<"_">> \o type, <<"_","_">> \o type, hello}

BatchLists ==
    {<<a>> : a \in BatchNames} \cup {<<a, b>> : a \in BatchNames, b \in BatchNames}

ProtectBatch == \E attr \in BatchLists : ProtectCall(attr)

UnprotectBatch == \E attr \in BatchLists : UnprotectCall(attr)

DeleteBatch == \E attr \in BatchLists : DeleteNamesCall(attr)

NextBatch ==
    \/ Set
    \/ ProtectBatch
    \/ UnprotectBatch
    \/ DeleteBatch

SpecBatch == Init /\ [][NextBatch]_vars

(***************************************************************************)
(* Construction on its own: ProtectedClass.__init__ with positional values *)
(* and named values drawn from small sets.                                 *)
(***************************************************************************)
PositionalValues ==
    {[str |-> type], [str |-> <<"_">> \o type], [int |-> 7], [int |-> 42]}

NamedValues ==
    {[k |-> n, v |-> x] : n \in {type, <<"_">> \o type}, x \in {"full", "162"}}

SeqsUpTo(S, n) == UNION {[1..m -> S] : m \in 0..n}

PositionalLists == SeqsUpTo(PositionalValues, MaxArgs)

\* **kwargs: a dict, so no name twice
NamedLists ==
    {kw \in SeqsUpTo(NamedValues, 2) :
        \A i, j \in 1..Len(kw) : kw[i].k = kw[j].k => i = j}

InitConstruct ==
    /\ \E args \in PositionalLists, kwargs \in NamedLists :
          op = [f |-> "pending", args |-> args, kwargs |-> kwargs]
    /\ d = <<>>
    /\ prev = <<>>
    /\ ret = None
    /\ err = NoError
    /\ log = {}
    /\ pc = "construction"
    /\ rt = NoPair
    /\ nops = 0

Construct ==
    /\ op.f = "pending"
    /\ op' = [op EXCEPT !.f = "ProtectedClass"]
    /\ d' = __init__(<<>>, op.args, op.kwargs)
    /\ UNCHANGED <<prev, ret, err, log, pc, rt, nops>>

NextConstruct == Construct

SpecConstruct == InitConstruct /\ [][NextConstruct]_vars

(***************************************************************************)
(* The naming utility on its own: a caller holding a name and a guard flag *)
(* calls make_protected_name_prefix(name, ignore) once.                    *)
(***************************************************************************)
InitNaming ==
    /\ \E name \in UtilityNames, ignore \in BOOLEAN :
          op = [f |-> "pending", args |-> <<name>>, ignore |-> ignore]
    /\ d = <<>>
    /\ prev = <<>>
    /\ ret = None
    /\ err = NoError
    /\ log = {}
    /\ pc = "naming"
    /\ rt = NoPair
    /\ nops = 0

\* the DunderAttributeError, when raised, reaches the caller
MakeProtectedNamePrefix ==
    LET r == make_protected_name_prefix(op.args[1], op.ignore) IN
    /\ op.f = "pending"
    /\ op' = [op EXCEPT !.f = "make_protected_name_prefix"]
    /\ ret' = IF r = DunderAttributeError THEN None ELSE r
    /\ err' = IF r = DunderAttributeError THEN "DunderAttributeError" ELSE NoError
    /\ nops' = nops + 1
    /\ UNCHANGED <<d, prev, log, pc, rt>>

NextNaming == MakeProtectedNamePrefix

SpecNaming == InitNaming /\ [][NextNaming]_vars

(***************************************************************************)
(* Vocabulary of the properties.                                           *)
(***************************************************************************)
Constructed == MyDataClass(<<>>, data)

\* the storage keys that spell the same logical attribute as name
SpellingsStored(dict, name) == {k \in keys(dict) : stripped(k) = stripped(name)}

\* the @property accessors of MyDataClass
ComputedAccessors == {backup_set, backup_date, count}

\* a name, in any underscore spelling, of an attribute shadowed by an accessor
Forbidden(name) == stripped(name) \in ComputedAccessors

\* the entries of the attributes shadowed by a computed accessor
ForbiddenEntries(dict) == {e \in items(dict) : Forbidden(e[1])}

\* the last call was f with no names / with the one name n
NoArgCall(f) == op.f = f /\ op.args = <<>>

(***************************************************************************)
(* C1 as stated: for every name n that is not forbidden and does not match *)
(* the reserved pattern, protect(n) followed by unprotect(n) leaves the    *)
(* store exactly as it was before protect(n).                              *)
(***************************************************************************)
C1_RoundTripAnyName ==
    (rt.phase = 2 /\ ~Forbidden(rt.n) /\ ~is_dunder_attrib(rt.n))
        => items(d) = items(rt.d0)

(***************************************************************************)
(* C1 amended: for every non-forbidden name n written without leading or   *)
(* trailing underscore that is stored under its unprotected spelling n and *)
(* not under _n, protect(n) followed by unprotect(n) leaves the store      *)
(* exactly as it was before protect(n): the same keys, the same values.    *)
(***************************************************************************)
C1_RoundTripUnprotected ==
    (/\ rt.phase = 2
     /\ ~Forbidden(rt.n)
     /\ stripped(rt.n) = rt.n
     /\ rt.n \in keys(rt.d0)
     /\ (<<"_">> \o rt.n) \notin keys(rt.d0))
        => items(d) = items(rt.d0)

C1_Witness ==
    /\ rt.phase = 2
    /\ rt.n = type
    /\ type \in keys(rt.d0)
    /\ (<<"_">> \o type) \notin keys(rt.d0)
    /\ (<<"_">> \o type) \in keys(prev)
    /\ type \in keys(d)

(***************************************************************************)
(* C2: after unprotect() with no names, every non-forbidden entry that was *)
(* stored under its protected spelling _n is stored under n with the value *)
(* it had before the call, and _n is no longer a storage key.              *)
(***************************************************************************)
C2_UnprotectAll ==
    NoArgCall("unprotect") =>
        \A e \in items(prev) :
            (is_protected_name_prefix(e[1]) /\ ~Forbidden(e[1])) =>
                /\ undo_protected_name_prefix(e[1]) \in keys(d)
                /\ getitem(d, undo_protected_name_prefix(e[1])) = e[2]
                /\ e[1] \notin keys(d)

(***************************************************************************)
(* C3: the sample run.  Right after construction from `data`,              *)
(* isProtected("type") is true and isUnprotected("type") is false; after   *)
(* unprotect("type"), isUnprotected("type") is true and the key type holds *)
(* "full"; after the following protect("type") the store equals the store  *)
(* right after construction; and in each of these states the entries       *)
(* _count, _backup_set and _backup_date are as constructed.                *)
(***************************************************************************)
C3_SampleRun ==
    /\ pc = "constructed" =>
          _hasprotectedattr(d, type) /\ ~_hasunprotectedattr(d, type)
    /\ pc = "unprotected" =>
          /\ _hasunprotectedattr(d, type)
          /\ type \in keys(d)
          /\ getitem(d, type) = "full"
    /\ pc = "protected" => items(d) = items(Constructed)
    /\ pc \in {"constructed", "unprotected", "protected"} =>
          \A e \in items(Constructed) :
              Forbidden(e[1]) =>
                  e \in items(d)

C3_Witness ==
    /\ pc = "protected"
    /\ op = [f |-> "protect", args |-> <<type>>]
    /\ type \in keys(prev)
    /\ <<(<<"_">> \o type), "full">> \in items(d)

(***************************************************************************)
(* C4 as stated: protect() and unprotect() with no arguments change        *)
(* neither the key nor the value of any forbidden entry, and leave         *)
(* unchanged every entry that is already in the target state (stored under *)
(* a protected key for protect(), under an unprotected key for             *)
(* unprotect()).                                                           *)
(***************************************************************************)
InTargetState(f, key) ==
    IF f = "protect"
    THEN is_protected_name_prefix(key)
    ELSE ~is_protected_name_prefix(key)

C4_NoArgFrame ==
    (NoArgCall("protect") \/ NoArgCall("unprotect")) =>
        /\ ForbiddenEntries(d) = ForbiddenEntries(prev)
        /\ \A e \in items(prev) : InTargetState(op.f, e[1]) => e \in items(d)

(***************************************************************************)
(* C4 amended: protect() and unprotect() with no arguments change neither  *)
(* the key nor the value of any forbidden entry, and leave unchanged every *)
(* entry already in the target state whose attribute is stored under no    *)
(* other underscore spelling.                                              *)
(***************************************************************************)
C4_NoArgFrameStoredOnce ==
    (NoArgCall("protect") \/ NoArgCall("unprotect")) =>
        /\ ForbiddenEntries(d) = ForbiddenEntries(prev)
        /\ \A e \in items(prev) :
              (/\ InTargetState(op.f, e[1])
               /\ Cardinality(SpellingsStored(prev, e[1])) = 1)
                  => e \in items(d)

C4_Witness ==
    /\ NoArgCall("protect")
    /\ d # prev
    /\ ForbiddenEntries(prev) # {}
    /\ \E e \in items(prev) :
          /\ is_protected_name_prefix(e[1])
          /\ ~Forbidden(e[1])
          /\ Cardinality(SpellingsStored(prev, e[1])) = 1
          /\ e \in items(d)

(***************************************************************************)
(* C5 as stated: in every state reachable from construction by any         *)
(* sequence of Set, Get, Delete, protect and unprotect, for every logical  *)
(* attribute name n at most one of the keys n and _n is in the store.      *)
(***************************************************************************)
AtMostOneSpelling(dict) ==
    \A k \in keys(dict) :
        ~(stripped(k) \in keys(dict) /\ (<<"_">> \o stripped(k)) \in keys(dict))

C5_AtMostOneSpelling == AtMostOneSpelling(d)

(***************************************************************************)
(* C5 amended: construction stores at most one of the keys n and _n for    *)
(* every logical attribute name n, and every Delete, and every Get,        *)
(* protect and unprotect called with plain names (no leading or trailing   *)
(* underscore) or with no names, keeps it so; a rename by such a call      *)
(* leaves no entry under the old key.  (Set writes the exact key it is     *)
(* given and can store both spellings, as can calls that spell a name      *)
(* with underscores.)                                                      *)
(***************************************************************************)
PlainCall ==
    \/ op.f = "__delattr__"
    \/ /\ op.f \in {"__getattr__", "protect", "unprotect"}
       /\ \A i \in 1..Len(op.args) : stripped(op.args[i]) = op.args[i]

C5_PlainCallsKeepOneSpelling ==
    /\ nops = 0 => AtMostOneSpelling(d)
    /\ (PlainCall /\ AtMostOneSpelling(prev)) =>
          /\ AtMostOneSpelling(d)
          /\ (op.f = "protect" /\ Len(op.args) = 1 /\ d # prev) =>
                op.args[1] \notin keys(d)
          /\ (op.f = "unprotect" /\ Len(op.args) = 1 /\ d # prev) =>
                (<<"_">> \o op.args[1]) \notin keys(d)

C5_Witness ==
    /\ op = [f |-> "protect", args |-> <<type>>]
    /\ AtMostOneSpelling(prev)
    /\ type \in keys(prev)
    /\ type \notin keys(d)
    /\ (<<"_">> \o type) \in keys(d)

(***************************************************************************)
(* C6: Delete, protect and unprotect, with explicit names in any           *)
(* underscore spelling or with no names, leave the key and the value of    *)
(* every forbidden attribute exactly as they were, and no error reaches    *)
(* the caller.                                                             *)
(***************************************************************************)
C6_ForbiddenUntouched ==
    op.f \in {"__delattr__", "protect", "unprotect"} =>
        /\ ForbiddenEntries(d) = ForbiddenEntries(prev)
        /\ err = NoError

C6_Witness ==
    /\ op = [f |-> "__delattr__", args |-> << <<"_">> \o count >>]
    /\ "WARNING: Unable to delete key" \in log
    /\ <<(<<"_">> \o count), "162">> \in items(d)

(***************************************************************************)
(* C7: isProtected(n) and isUnprotected(n) are never both true for a name  *)
(* n that is stored exactly once, that is when exactly one underscore      *)
(* spelling of n is a storage key.                                         *)
(***************************************************************************)
C7_Exclusive ==
    \A n \in Names :
        Cardinality(SpellingsStored(d, n)) = 1 =>
            ~(_hasprotectedattr(d, n) /\ _hasunprotectedattr(d, n))

C7_Witness ==
    /\ SpellingsStored(d, type) = {type}
    /\ _hasunprotectedattr(d, type)
    /\ ~_hasprotectedattr(d, type)
    /\ _hasprotectedattr(prev, type)
    /\ ~_hasunprotectedattr(prev, type)

(***************************************************************************)
(* C8: Get(x) on a name x stored under neither x nor _x raises no error,   *)
(* returns None, and afterwards x is stored with value None; no other key  *)
(* is created or changed.                                                  *)
(***************************************************************************)
StoredUnderNeither(dict, x) ==
    x \notin keys(dict) /\ (<<"_">> \o x) \notin keys(dict)

C8_AutoVivify ==
    (op.f = "__getattr__" /\ StoredUnderNeither(prev, op.args[1])) =>
        /\ err = NoError
        /\ ret = None
        /\ _hasattr(d, op.args[1])
        /\ items(d) = items(prev) \cup {<<op.args[1], None>>}

C8_Witness ==
    /\ op.f = "__getattr__"
    /\ StoredUnderNeither(prev, op.args[1])
    /\ <<op.args[1], None>> \in items(d)

(***************************************************************************)
(* C9 as stated: make_protected_name_prefix(name, guard) returns "_" +     *)
(* name, except that when guard is true and name has length > 2 and starts *)
(* with "_" it fails with DunderAttributeError.                            *)
(***************************************************************************)
C9_GuardOnSingleUnderscore ==
    op.f = "make_protected_name_prefix" =>
        IF op.ignore /\ Len(op.args[1]) > 2 /\ startswith(op.args[1], <<"_">>)
        THEN err = "DunderAttributeError"
        ELSE err = NoError /\ ret = <<"_">> \o op.args[1]

(***************************************************************************)
(* C9 amended: make_protected_name_prefix(name, guard) returns "_" + name, *)
(* except that when guard is true and name has length > 2 and starts with  *)
(* "__" (two underscores) it fails with DunderAttributeError; so           *)
(* ("__secret__", guard true) fails and ("__secret__", guard false)        *)
(* returns "___secret__".                                                  *)
(***************************************************************************)
C9_GuardOnDoubleUnderscore ==
    op.f = "make_protected_name_prefix" =>
        IF op.ignore /\ Len(op.args[1]) > 2 /\ startswith(op.args[1], <<"_","_">>)
        THEN err = "DunderAttributeError"
        ELSE err = NoError /\ ret = <<"_">> \o op.args[1]

C9_Witness ==
    /\ op = [f |-> "make_protected_name_prefix",
             args |-> << <<"_","_">> \o secret \o <<"_","_">> >>,
             ignore |-> TRUE]
    /\ err = "DunderAttributeError"

(***************************************************************************)
(* C10 as stated: when protect or unprotect adds the protection prefix to  *)
(* a name that already looks reserved, a DunderAttributeError is raised    *)
(* and reaches the caller of protect/unprotect.                            *)
(***************************************************************************)
\* the name the renaming path of the last call handed to
\* make_protected_name_prefix, or <<>> when it did not get that far
Prefixed ==
    IF op.f = "protect" /\ Len(op.args) = 1
          /\ ~_isforbidden(prev, op.args[1])
          /\ _hasunprotectedattr(prev, op.args[1])
    THEN undo_protected_name_prefix(op.args[1])
    ELSE IF op.f = "unprotect" /\ Len(op.args) = 1
               /\ ~_isforbidden(prev, op.args[1])
               /\ _hasprotectedattr(prev, op.args[1])
         THEN op.args[1]
         ELSE <<>>

LooksReserved(name) == Len(name) > 2 /\ is_dunder_prefix(name)

ToggleOne(dict, arg) ==
    IF op.f = "protect" THEN protect_arg(dict, arg) ELSE unprotect_arg(dict, arg)

C11_ErrorIsolation ==
    op.f \in {"protect", "unprotect"} =>
        /\ err = NoError
        /\ Len(op.args) = 2 =>
              d = ToggleOne(ToggleOne(prev, op.args[1]).d, op.args[2]).d

C11_Witness ==
    /\ op.f = "unprotect"
    /\ Len(op.args) = 2
    /\ "Something went wrong with __delattr__" \in ToggleOne(prev, op.args[1]).log
    /\ d # ToggleOne(prev, op.args[1]).d
    /\ err = NoError

(***************************************************************************)
(* C12: protect(name) with a name in any underscore spelling: a name that  *)
(* is forbidden or whose fully-stripped spelling s is not a storage key    *)
(* leaves the store unchanged; for every other name, after the call the    *)
(* value formerly stored under s is stored under _s, the key s is absent,  *)
(* and no other key has been created.                                      *)
(***************************************************************************)
C12_ProtectRenames ==
    (op.f = "protect" /\ Len(op.args) = 1) =>
        LET s == stripped(op.args[1]) IN
        IF Forbidden(op.args[1]) \/ s \notin keys(prev)
        THEN items(d) = items(prev)
        ELSE /\ (<<"_">> \o s) \in keys(d)
             /\ getitem(d, <<"_">> \o s) = getitem(prev, s)
             /\ s \notin keys(d)
             /\ keys(d) \subseteq keys(prev) \cup {<<"_">> \o s}

(***************************************************************************)
(* C13 as stated: right after Construct(positionalValues, namedValues),    *)
(* for every named value (k, v) the key _k is stored with value v and k is *)
(* not a storage key, for every positional value a the key "_" + text(a)   *)
(* is stored with value None, and the store has no other keys.             *)
(***************************************************************************)
NamedKeys == {(<<"_">> \o op.kwargs[i].k) : i \in 1..Len(op.kwargs)}

PositionalKeys == {(<<"_">> \o fstring(op.args[i])) : i \in 1..Len(op.args)}

C13_ConstructProtected ==
    op.f = "ProtectedClass" =>
        /\ \A i \in 1..Len(op.kwargs) :
              /\ <<(<<"_">> \o op.kwargs[i].k), op.kwargs[i].v>> \in items(d)
              /\ op.kwargs[i].k \notin keys(d)
        /\ \A k \in PositionalKeys : <<k, None>> \in items(d)
        /\ keys(d) = NamedKeys \cup PositionalKeys

(***************************************************************************)
(* C13 amended: right after Construct(positionalValues, namedValues), for  *)
(* every named value (k, v) the key _k is stored with value v, for every   *)
(* positional value a the key "_" + text(a) is stored, with value None     *)
(* unless a named value has that name, and the store has no other keys;    *)
(* the prefix is added exactly once and unconditionally, so a name k is    *)
(* itself a storage key exactly when k is "_" + another constructed name.  *)
(***************************************************************************)
C13_ConstructPrefixedOnce ==
    op.f = "ProtectedClass" =>
        /\ \A i \in 1..Len(op.kwargs) :
              <<(<<"_">> \o op.kwargs[i].k), op.kwargs[i].v>> \in items(d)
        /\ \A k \in PositionalKeys \ NamedKeys : <<k, None>> \in items(d)
        /\ keys(d) = NamedKeys \cup PositionalKeys

C13_Witness ==
    /\ op.f = "ProtectedClass"
    /\ \E i \in 1..Len(op.kwargs) : op.kwargs[i].k = <<"_">> \o type
    /\ \E i \in 1..Len(op.args) : op.args[i] = [int |-> 42]
    /\ {<<"_","_">> \o type, <<"_","4","2">>} \subseteq keys(d)

(***************************************************************************)
(* C14: Get(name) returns the value stored under name when name is a       *)
(* storage key, also when _name is stored too; otherwise, when _name is a  *)
(* storage key, it returns that value; in both cases the store is left     *)
(* unchanged.                                                              *)
(***************************************************************************)
C14_GetResolution ==
    op.f = "__getattr__" =>
        LET name == op.args[1] IN
        /\ name \in keys(prev) => (ret = getitem(prev, name) /\ d = prev)
        /\ (name \notin keys(prev) /\ (<<"_">> \o name) \in keys(prev)) =>
              (ret = getitem(prev, <<"_">> \o name) /\ d = prev)

C14_Witness ==
    /\ op = [f |-> "__getattr__", args |-> <<type>>]
    /\ {<<type, "new">>, <<(<<"_">> \o type), "full">>} \subseteq items(prev)
    /\ ret = "new"
    /\ d = prev

(***************************************************************************)
(* C15: Delete(names...) of a name that is not a storage key is a no-op:   *)
(* no error reaches the caller, the store is unchanged and the remaining   *)
(* names of the same call are still processed; deleting a stored           *)
(* non-forbidden name removes exactly that key and no other spelling.      *)
(***************************************************************************)
C15_DeleteMissing ==
    op.f = "__delattr__" =>
        LET named == {op.args[i] : i \in 1..Len(op.args)} IN
        /\ err = NoError
        /\ items(d) = {e \in items(prev) : e[1] \notin named \/ Forbidden(e[1])}

C15_Witness ==
    /\ op = [f |-> "__delattr__", args |-> <<type, <<"_">> \o type>>]
    /\ type \notin keys(prev)
    /\ (<<"_">> \o type) \in keys(prev)
    /\ "Something went wrong with __delattr__" \in log
    /\ (<<"_">> \o type) \notin keys(d)

(***************************************************************************)
(* C16: Set(name, value) writes value under exactly the key name, with no  *)
(* prefixing, also when _name is already stored and also when name is      *)
(* forbidden; every other storage key and its value is unchanged.          *)
(***************************************************************************)
C16_SetExactKey ==
    op.f = "__setattr__" =>
        items(d) = {e \in items(prev) : e[1] # op.args[1]}
                       \cup {<<op.args[1], op.args[2][1]>>}

C16_Witness ==
    /\ op = [f |-> "__setattr__", args |-> <<count, <<"new">> >>]
    /\ <<(<<"_">> \o count), "162">> \in items(prev)
    /\ {<<(<<"_">> \o count), "162">>, <<count, "new">>} \subseteq items(d)

(***************************************************************************)
(* C17: toggle state machine for plain names.  For a non-forbidden name n  *)
(* written without leading or trailing underscores that is stored under    *)
(* exactly one spelling, after protect(n) or unprotect(n) exactly one of   *)
(* {n, _n} is a storage key, it holds the value n had before, and it is    *)
(* _n after protect(n) and n after unprotect(n); Get(n) does not change    *)
(* which spelling is stored.                                               *)
(*                                                                         *)
(* C17_ToggleAnySpelling reads "exactly one spelling" as in C7: exactly    *)
(* one underscore spelling of n is a storage key.  C17_ToggleStateMachine  *)
(* asks for that spelling to be n or _n; its conclusion restores its       *)
(* premise, so it covers every sequence of protect(n), unprotect(n) and    *)
(* Get(n) calls by induction on the length of the sequence.  The is*       *)
(* predicates are the operators _hasprotectedattr and _hasunprotectedattr, *)
(* which only read the store.                                              *)
(***************************************************************************)
PlainName(n) == n # <<>> /\ stripped(n) = n /\ ~Forbidden(n)

ToggleCall(n) == op.f \in {"protect", "unprotect"} /\ op.args = <<n>>

Toggled(n, before) ==
    LET target == IF op.f = "protect" THEN <<"_">> \o n ELSE n
    IN  /\ {n, <<"_">> \o n} \cap keys(d) = {target}
        /\ \A k \in before : getitem(d, target) = getitem(prev, k)

C17_ToggleAnySpelling ==
    \A n \in Names :
        (PlainName(n) /\ Cardinality(SpellingsStored(prev, n)) = 1) =>
            /\ ToggleCall(n) => Toggled(n, SpellingsStored(prev, n))
            /\ op = [f |-> "__getattr__", args |-> <<n>>] =>
                  SpellingsStored(d, n) = SpellingsStored(prev, n)

C17_ToggleStateMachine ==
    \A n \in Names :
        (PlainName(n) /\ SpellingsStored(prev, n) \in {{n}, {<<"_">> \o n}}) =>
            /\ ToggleCall(n) =>
                  /\ Toggled(n, SpellingsStored(prev, n))
                  /\ SpellingsStored(d, n) \in {{n}, {<<"_">> \o n}}
                  /\ err = NoError
            /\ op = [f |-> "__getattr__", args |-> <<n>>] => d = prev

C17_Witness ==
    /\ nops = MaxOps
    /\ op = [f |-> "unprotect", args |-> <<type>>]
    /\ SpellingsStored(prev, type) = {<<"_">> \o type}
    /\ SpellingsStored(d, type) = {type}
    /\ getitem(d, type) = "full"
    /\ d # Constructed

(***************************************************************************)
(* C18: protect(names...) and unprotect(names...) called with explicit     *)
(* names create, remove or overwrite only storage keys that are underscore *)
(* spellings of the names given; every entry of every other logical        *)
(* attribute keeps its key and its value.                                  *)
(***************************************************************************)
SpellsOneOf(k, names) == \E i \in 1..Len(names) : stripped(k) = stripped(names[i])

C18_ExplicitToggleFrame ==
    (op.f \in {"protect", "unprotect"} /\ op.args # <<>>) =>
        {e \in items(d) : ~SpellsOneOf(e[1], op.args)}
            = {e \in items(prev) : ~SpellsOneOf(e[1], op.args)}

C18_Witness ==
    /\ op = [f |-> "protect", args |-> <<type>>]
    /\ {type, hello} \subseteq keys(prev)
    /\ (<<"_">> \o type) \in keys(d)
    /\ type \notin keys(d)
    /\ hello \in keys(d)

(***************************************************************************)
(* C19: idempotence.  For every store and every name n in any underscore   *)
(* spelling, protect(n) followed by protect(n) yields the same store as a  *)
(* single protect(n), and unprotect(n) followed by unprotect(n) the same   *)
(* store as a single unprotect(n); the same for protect() and unprotect(). *)
(* d is the store after the first call; Again is the store after the same  *)
(* call is made once more.                                                 *)
(***************************************************************************)
Again ==
    IF op.f = "protect" THEN protect(d, op.args).d ELSE unprotect(d, op.args).d

ToggleAtMostOneName == op.f \in {"protect", "unprotect"} /\ Len(op.args) <= 1

C19_Idempotent == ToggleAtMostOneName => items(Again) = items(d)

====
